---------------------------- MODULE Spec2Model ----------------------------
(***************************************************************************)
(* Taboola identity resolution, user sync and bid reconciliation.          *)
(*                                                                         *)
(*   src/unnamed/part_000            the Taboola user ID submodule         *)
(*   src/modules/taboolaBidAdapter.js  the Taboola bid adapter             *)
(*                                                                         *)
(* JavaScript values are tagged records, so that undefined, null, the      *)
(* number 0, the string "0" and the empty string stay distinct.  A string  *)
(* is a sequence of symbols; the symbol "user-id" stands for the key text  *)
(* user-id, which has no proper self-overlap, so that split and startsWith *)
(* act on symbols as they act on characters.                               *)
(***************************************************************************)
EXTENDS Integers, Sequences, FiniteSets, TLC

VARIABLES
  localStorage,   \* the durable store: [mode, data], data the value under STORAGE_KEY
  cookieJar,      \* the cookie jar: [mode, jar], jar a function from cookie names
  TRC,            \* window.TRC: NoTRC or [user_id |-> value]
  foundId,        \* the ID submodule's userData.getUserId() result, Pending before the call
  adapterId,      \* the bid adapter's userData.getUserId() result, Pending before the call
  requestUser,    \* the "user" object of the serialized auction request, Pending before
  calls,          \* the getId calls and their user syncs, by call number
  lastRefreshed,  \* the identifier of the refreshing response handled last, Undefined before
  decodeIn,       \* the stored value handed to taboolaIdSubmodule.decode
  decodeOut,      \* what decode returned, Pending before the call
  bids,           \* the batch of bid requests of the auction request (request.bids)
  serverResponse, \* the exchange's answer
  bidResults      \* what spec.interpretResponse returned, Pending before the call

storageVars == <<localStorage, cookieJar, TRC>>
resolveVars == <<foundId, adapterId, requestUser>>
syncVars    == <<calls, lastRefreshed>>
decodeVars  == <<decodeIn, decodeOut>>
auctionVars == <<bids, serverResponse, bidResults>>
vars == <<localStorage, cookieJar, TRC, foundId, adapterId, requestUser, calls,
          lastRefreshed, decodeIn, decodeOut, bids, serverResponse, bidResults>>

---------------------------------------------------------------------------
(* Bounds *)

MaxPairs == 2      \* pairs in a trc_cookie_storage value
MaxCalls == 2      \* getId calls, each with one user sync

---------------------------------------------------------------------------
(* JavaScript values *)

Undefined == [t |-> "undefined"]
Null      == [t |-> "null"]
Throw     == [t |-> "throw"]      \* the outcome of a call that raised
Pending   == [t |-> "pending"]    \* no outcome yet
Num(n)    == [t |-> "number", n |-> n]
Str(s)    == [t |-> "string", s |-> s]
Bool(b)   == [t |-> "boolean", b |-> b]
Obj(f)    == [t |-> "object", f |-> f]   \* f: a function from property names to values
Arr(a)    == [t |-> "array", a |-> a]    \* a: the sequence of the array's elements

\* v[name]: the property of an object, undefined when it has none of that name.
Field(v, name) ==
  IF v.t = "object" /\ name \in DOMAIN v.f THEN v.f[name] ELSE Undefined

\* JavaScript truthiness: what `if (v)`, `v || w` and `v ? a : b` test.
Truthy(v) ==
  CASE v.t = "string" -> v.s # <<>>
    [] v.t = "boolean" -> v.b
    [] v.t = "number" -> v.n # 0
    [] v.t = "object" -> TRUE
    [] v.t = "array"  -> TRUE
    [] OTHER          -> FALSE

\* a || b, where an operand that raised ends the evaluation.
OrElse(a, b) == IF a = Throw THEN Throw ELSE IF Truthy(a) THEN a ELSE b

\* String.prototype.startsWith
StartsWith(s, p) == Len(s) >= Len(p) /\ SubSeq(s, 1, Len(p)) = p

\* The least index at which sep occurs in s, 0 when it does not.
IndexOf(s, sep) ==
  LET hits == {i \in 1..(Len(s) - Len(sep) + 1) : SubSeq(s, i, i + Len(sep) - 1) = sep}
  IN IF hits = {} THEN 0 ELSE CHOOSE i \in hits : \A j \in hits : i <= j

\* String.prototype.split with a non-empty separator.
RECURSIVE Split(_, _)
Split(s, sep) ==
  LET i == IndexOf(s, sep)
  IN IF i = 0 THEN <<s>>
     ELSE <<SubSeq(s, 1, i - 1)>> \o Split(SubSeq(s, i + Len(sep), Len(s)), sep)

---------------------------------------------------------------------------
(* Constants of the two modules *)

USER_ID            == <<"user-id">>
STORAGE_KEY        == "taboola global:user-id"
COOKIE_KEY         == "trc_cookie_storage"
TGID_COOKIE_KEY    == "t_gid"
TGID_PT_COOKIE_KEY == "t_pt_gid"
TBLA_ID_COOKIE_KEY == "tbla_id"

CookieNames ==
  {COOKIE_KEY, TGID_COOKIE_KEY, TGID_PT_COOKIE_KEY, TBLA_ID_COOKIE_KEY, STORAGE_KEY}

NoTRC == [t |-> "none"]

---------------------------------------------------------------------------
(* The storage manager: reads and writes of the two media, with their      *)
(* availability checks.  A medium is "enabled", "disabled" (its check      *)
(* answers no, a read finds nothing, a write is dropped) or "faulty" (every *)
(* access raises); the durable store may also be "readonly" (it reads, and  *)
(* a write raises, as a full store does).                                  *)

hasLocalStorage(ls) ==
  IF ls.mode = "faulty" THEN Throw ELSE Bool(ls.mode \in {"enabled", "readonly"})

getDataFromLocalStorage(ls) ==
  IF ls.mode = "faulty" THEN Throw
  ELSE IF ls.mode \in {"enabled", "readonly"} THEN ls.data ELSE Null

setDataInLocalStorage(ls, id) ==
  IF ls.mode \in {"faulty", "readonly"} THEN Throw
  ELSE IF ls.mode = "enabled" THEN [ls EXCEPT !.data = id] ELSE ls

cookiesAreEnabled(ck) ==
  IF ck.mode = "faulty" THEN Throw ELSE Bool(ck.mode = "enabled")

getCookie(ck, name) ==
  IF ck.mode = "faulty" THEN Throw
  ELSE IF ck.mode = "enabled" THEN ck.jar[name] ELSE Null

setCookie(ck, name, id) ==
  IF ck.mode = "faulty" THEN Throw
  ELSE IF ck.mode = "enabled" THEN [ck EXCEPT !.jar[name] = id] ELSE ck

---------------------------------------------------------------------------
(* userData of the ID submodule *)

getFromLocalStorage(ls) ==
  LET usable == hasLocalStorage(ls)
  IN IF usable = Throw THEN Throw
     ELSE IF Truthy(usable) THEN getDataFromLocalStorage(ls)
     ELSE Undefined

getCookieDataByKey(cookieData, key) ==
  IF ~Truthy(cookieData) THEN Undefined
  ELSE LET items   == Split(cookieData.s, <<"&">>)
           matches == SelectSeq(items, LAMBDA item : StartsWith(item, key \o <<"=">>))
       IN IF matches = <<>> THEN Undefined
          ELSE LET parts == Split(matches[1], <<"=">>)
               IN IF Len(parts) >= 2 THEN Str(parts[2]) ELSE Undefined

\* getFromCookie that tries t_pt_gid before t_gid.
getFromCookie_swapped(ck) ==
  LET enabled == cookiesAreEnabled(ck)
  IN IF enabled = Throw THEN Throw
     ELSE IF Truthy(enabled) THEN
       LET cookieData == getCookie(ck, COOKIE_KEY)
           userId     == IF Truthy(cookieData)
                         THEN getCookieDataByKey(cookieData, USER_ID)
                         ELSE Undefined
           tid        == getCookie(ck, TGID_COOKIE_KEY)
           tptid      == getCookie(ck, TGID_PT_COOKIE_KEY)
           tblaid     == getCookie(ck, TBLA_ID_COOKIE_KEY)
       IN IF Truthy(userId) THEN userId
          ELSE IF Truthy(tptid) THEN tptid
          ELSE IF Truthy(tid) THEN tid
          ELSE IF Truthy(tblaid) THEN tblaid
          ELSE Undefined
     ELSE Undefined

getFromCookie(ck) ==
  LET enabled == cookiesAreEnabled(ck)
  IN IF enabled = Throw THEN Throw
     ELSE IF Truthy(enabled) THEN
       LET cookieData == getCookie(ck, COOKIE_KEY)
           userId     == IF Truthy(cookieData)
                         THEN getCookieDataByKey(cookieData, USER_ID)
                         ELSE Undefined
           tid        == getCookie(ck, TGID_COOKIE_KEY)
           tptid      == getCookie(ck, TGID_PT_COOKIE_KEY)
           tblaid     == getCookie(ck, TBLA_ID_COOKIE_KEY)
       IN IF Truthy(userId) THEN userId
          ELSE IF Truthy(tid) THEN tid
          ELSE IF Truthy(tptid) THEN tptid
          ELSE IF Truthy(tblaid) THEN tblaid
          ELSE Undefined
     ELSE Undefined

getFromTRC(trc) == IF trc # NoTRC THEN trc.user_id ELSE Undefined

getUserId(ls, ck, trc) ==
  LET r == OrElse(getFromLocalStorage(ls), OrElse(getFromCookie(ck), getFromTRC(trc)))
  IN IF r = Throw THEN Num(0) ELSE r

---------------------------------------------------------------------------
(* Storage states *)

Modes == {"enabled", "disabled", "faulty"}

Join(a, b) == a \o <<"&">> \o b

CookieKeys   == {USER_ID, <<"a">>, <<"a">> \o USER_ID}
CookieValues == {<<>>, <<"1">>, <<"2">>}
CookieItems  ==
  {k \o <<"=">> \o v : k \in CookieKeys, v \in CookieValues} \cup {USER_ID}

RECURSIVE CookieStrings(_)
CookieStrings(n) ==
  IF n = 0 THEN {}
  ELSE CookieItems \cup {Join(i, s) : i \in CookieItems, s \in CookieStrings(n - 1)}

Absent(v) == {Null, Str(v)}

ResolveInit ==
  /\ localStorage \in [mode : Modes, data : {Null, Str(<<>>), Str(<<"L">>)}]
  /\ \E m \in Modes, c \in {Null} \cup {Str(s) : s \in CookieStrings(MaxPairs)},
        g \in Absent(<<"g">>), p \in Absent(<<"p">>), b \in Absent(<<"b">>) :
       cookieJar = [mode |-> m,
                    jar  |-> [n \in CookieNames |->
                                CASE n = COOKIE_KEY         -> c
                                  [] n = TGID_COOKIE_KEY    -> g
                                  [] n = TGID_PT_COOKIE_KEY -> p
                                  [] n = TBLA_ID_COOKIE_KEY -> b
                                  [] OTHER                  -> Null]]
  /\ TRC \in {NoTRC, [user_id |-> Num(0)], [user_id |-> Str(<<"T">>)]}
  /\ foundId = Pending
  /\ adapterId = Pending
  /\ requestUser = Pending
  /\ calls = <<>>
  /\ lastRefreshed = Undefined
  /\ decodeIn = Undefined
  /\ decodeOut = Pending
  /\ bids = Undefined
  /\ serverResponse = Undefined
  /\ bidResults = Pending

GetUserId ==
  /\ foundId = Pending
  /\ foundId' = getUserId(localStorage, cookieJar, TRC)
  /\ UNCHANGED <<storageVars, adapterId, requestUser, syncVars, decodeVars, auctionVars>>

SpecResolve == ResolveInit /\ [][GetUserId]_vars

---------------------------------------------------------------------------
(* The user sync of the ID submodule *)

\* The address buildTaboolaSyncUrl builds and the expiry saveUserId gives its
\* cookie are no part of the state: nothing below reads them.

\* JSON.parse of a response body: a body is its text's parse, or no JSON at all.
JSONParse(response) == IF response.json THEN response.value ELSE Throw

\* saveUserId that writes the cookie and forgets the durable store.
saveUserId_cookieOnly(ls, ck, id) ==
  IF ~Truthy(id) THEN [ls |-> ls, ck |-> ck]
  ELSE LET enabled == cookiesAreEnabled(ck)
       IN IF enabled # Throw /\ Truthy(enabled)
          THEN [ls |-> ls, ck |-> setCookie(ck, STORAGE_KEY, id)]
          ELSE [ls |-> ls, ck |-> ck]

saveUserId(ls, ck, id) ==
  IF ~Truthy(id) THEN [ls |-> ls, ck |-> ck]
  ELSE LET ls1 == setDataInLocalStorage(ls, id)
       IN IF ls1 = Throw THEN [ls |-> ls, ck |-> ck]
          ELSE LET enabled == cookiesAreEnabled(ck)
               IN IF enabled = Throw THEN [ls |-> ls1, ck |-> ck]
                  ELSE IF Truthy(enabled)
                       THEN [ls |-> ls1, ck |-> setCookie(ck, STORAGE_KEY, id)]
                       ELSE [ls |-> ls1, ck |-> ck]

\* currentId ? { taboolaId: currentId } : undefined
Fallback(currentId) ==
  IF Truthy(currentId) THEN Obj([k \in {"taboolaId"} |-> currentId]) ELSE Undefined

\* The success handler with the callback invoked before saveUserId.
success_callbackFirst(currentId, cbThrows, response, ls, ck) ==
  LET data == JSONParse(response)
      fb   == Fallback(currentId)
  IN IF data # Throw /\ Truthy(data) /\ Truthy(Field(data, "taboolaId"))
     THEN LET id   == Field(data, "taboolaId")
              read == getDataFromLocalStorage(ls)
              new  == Obj([k \in {"taboolaId"} |-> id])
              st   == IF cbThrows THEN [ls |-> ls, ck |-> ck] ELSE saveUserId(ls, ck, id)
          IN [delivered |-> IF cbThrows THEN <<new, fb>> ELSE <<new>>,
              seen      |-> IF cbThrows THEN <<read, read>> ELSE <<read>>,
              ls |-> st.ls, ck |-> st.ck,
              fault |-> cbThrows, path |-> "refreshed", refreshed |-> id]
     ELSE [delivered |-> <<fb>>,
           seen      |-> <<getDataFromLocalStorage(ls)>>,
           ls |-> ls, ck |-> ck,
           fault |-> cbThrows,
           path |-> IF data = Throw THEN "unparsable" ELSE "nofield",
           refreshed |-> Undefined]

\* The success handler of callTaboolaUserSync.  delivered: the values the callback
\* was invoked with, in order; seen: what a read of the durable store yields at each
\* invocation; fault: whether an exception leaves the handler.  A callback that
\* raises inside the try block is caught there, and the handler goes on to the
\* fallback invocation.
success(currentId, cbThrows, response, ls, ck) ==
  LET data == JSONParse(response)
      fb   == Fallback(currentId)
  IN IF data # Throw /\ Truthy(data) /\ Truthy(Field(data, "taboolaId"))
     THEN LET id   == Field(data, "taboolaId")
              st   == saveUserId(ls, ck, id)
              read == getDataFromLocalStorage(st.ls)
              new  == Obj([k \in {"taboolaId"} |-> id])
          IN [delivered |-> IF cbThrows THEN <<new, fb>> ELSE <<new>>,
              seen      |-> IF cbThrows THEN <<read, read>> ELSE <<read>>,
              ls |-> st.ls, ck |-> st.ck,
              fault |-> cbThrows, path |-> "refreshed", refreshed |-> id]
     ELSE [delivered |-> <<fb>>,
           seen      |-> <<getDataFromLocalStorage(ls)>>,
           ls |-> ls, ck |-> ck,
           fault |-> cbThrows,
           path |-> IF data = Throw THEN "unparsable" ELSE "nofield",
           refreshed |-> Undefined]

\* The error handler of callTaboolaUserSync.
error(currentId, cbThrows, ls, ck) ==
  [delivered |-> <<Fallback(currentId)>>,
   seen      |-> <<getDataFromLocalStorage(ls)>>,
   ls |-> ls, ck |-> ck,
   fault |-> cbThrows, path |-> "error", refreshed |-> Undefined]

\* taboolaIdSubmodule.getId: the identifier found and the id it reports.
getId(ls, ck, trc) ==
  LET found == getUserId(ls, ck, trc)
  IN [currentId |-> found,
      id |-> IF Truthy(found) /\ found # Num(0) THEN found ELSE Undefined]

---------------------------------------------------------------------------
(* The sync state machine *)

Responses ==
  {[json |-> FALSE, value |-> Null],                                     \* not JSON
   [json |-> TRUE,  value |-> Null],                                     \* null
   [json |-> TRUE,  value |-> Obj(<<>>)],                                \* {}
   [json |-> TRUE,  value |-> Obj([k \in {"taboolaId"} |-> Str(<<>>)])], \* {"taboolaId":""}
   [json |-> TRUE,  value |-> Obj([k \in {"taboolaId"} |-> Str(<<"A">>)])],
   [json |-> TRUE,  value |-> Obj([k \in {"taboolaId"} |-> Str(<<"B">>)])]}

Init ==
  /\ localStorage \in [mode : Modes \cup {"readonly"},
                       data : {Null, Str(<<"0">>), Str(<<"L">>)}]
  /\ \E m \in Modes, g \in Absent(<<"g">>) :
       cookieJar = [mode |-> m,
                    jar  |-> [n \in CookieNames |->
                                IF n = TGID_COOKIE_KEY THEN g ELSE Null]]
  /\ TRC \in {NoTRC, [user_id |-> Num(0)]}
  /\ foundId = Pending
  /\ adapterId = Pending
  /\ requestUser = Pending
  /\ calls = <<>>
  /\ lastRefreshed = Undefined
  /\ decodeIn = Undefined
  /\ decodeOut = Pending
  /\ bids = Undefined
  /\ serverResponse = Undefined
  /\ bidResults = Pending

\* getId(submoduleConfig): resolves the identifier and hands back the sync callback.
GetId ==
  /\ Len(calls) < MaxCalls
  /\ LET r == getId(localStorage, cookieJar, TRC)
     IN calls' = Append(calls,
          [pc |-> "ready", currentId |-> r.currentId, id |-> r.id, cbThrows |-> FALSE,
           delivered |-> <<>>, seen |-> <<>>, before |-> Null, after |-> Null,
           touched |-> FALSE, fault |-> FALSE, path |-> "none"])
  /\ UNCHANGED <<storageVars, resolveVars, lastRefreshed, decodeVars, auctionVars>>

\* callbackFn(cb) -> callTaboolaUserSync(config, foundId, cb): the request leaves.
CallbackFn(i) ==
  /\ calls[i].pc = "ready"
  /\ \E throws \in BOOLEAN :
       calls' = [calls EXCEPT ![i].pc = "inflight", ![i].cbThrows = throws]
  /\ UNCHANGED <<storageVars, resolveVars, lastRefreshed, decodeVars, auctionVars>>

Settle(i, out) ==
  /\ calls' = [calls EXCEPT ![i].pc = "done",
                            ![i].delivered = out.delivered,
                            ![i].seen = out.seen,
                            ![i].before = localStorage.data,
                            ![i].after = out.ls.data,
                            ![i].touched = (out.ls # localStorage \/ out.ck # cookieJar),
                            ![i].fault = out.fault,
                            ![i].path = out.path]
  /\ localStorage' = out.ls
  /\ cookieJar' = out.ck
  /\ lastRefreshed' = IF out.path = "refreshed" THEN out.refreshed ELSE lastRefreshed
  /\ UNCHANGED <<TRC, resolveVars, decodeVars, auctionVars>>

\* The transport answers: ajax runs the success handler.
Success(i) ==
  /\ calls[i].pc = "inflight"
  /\ \E response \in Responses :
       Settle(i, success(calls[i].currentId, calls[i].cbThrows, response,
                         localStorage, cookieJar))

\* The transport fails: ajax runs the error handler.
Error(i) ==
  /\ calls[i].pc = "inflight"
  /\ Settle(i, error(calls[i].currentId, calls[i].cbThrows, localStorage, cookieJar))

Next ==
  \/ GetId
  \/ \E i \in 1..Len(calls) : CallbackFn(i)
  \/ \E i \in 1..Len(calls) : Success(i)
  \/ \E i \in 1..Len(calls) : Error(i)

Spec == Init /\ [][Next]_vars

---------------------------------------------------------------------------
(* userData of the bid adapter, and the user object of spec.buildRequests *)

adapter_getFromLocalStorage(ls) ==
  LET usable == hasLocalStorage(ls)
  IN IF usable = Throw THEN Throw
     ELSE IF Truthy(usable) THEN getDataFromLocalStorage(ls)
     ELSE Undefined

\* const [, value = ''] = cookieData.split(`${key}=`): a cookie that is not a
\* string has no split, and the call raises.
adapter_getCookieDataByKey(cookieData, key) ==
  IF cookieData.t # "string" THEN Throw
  ELSE LET parts == Split(cookieData.s, key \o <<"=">>)
       IN Str(IF Len(parts) >= 2 THEN parts[2] ELSE <<>>)

adapter_getFromCookie(ck) ==
  LET enabled == cookiesAreEnabled(ck)
  IN IF enabled = Throw THEN Throw
     ELSE IF Truthy(enabled) THEN
       LET cookieData == getCookie(ck, COOKIE_KEY)
           userId     == adapter_getCookieDataByKey(cookieData, USER_ID)
       IN IF userId = Throw THEN Throw
          ELSE IF Truthy(userId) THEN userId
          ELSE Undefined
     ELSE Undefined

\* getFromTRC that answers undefined, not 0, when the page has no window.TRC.
adapter_getFromTRC_undefined(trc) == IF trc # NoTRC THEN trc.user_id ELSE Undefined

adapter_getFromTRC(trc) == IF trc # NoTRC THEN trc.user_id ELSE Num(0)

adapter_getUserId(ls, ck, trc) ==
  LET r == OrElse(adapter_getFromLocalStorage(ls),
                  OrElse(adapter_getFromCookie(ck), adapter_getFromTRC(trc)))
  IN IF r = Throw THEN Num(0) ELSE r

\* JSON.stringify of an object: a property whose value is undefined is left out.
RECURSIVE JSONStringify(_)
JSONStringify(v) ==
  IF v.t = "object"
  THEN Obj([k \in {n \in DOMAIN v.f : v.f[n] # Undefined} |-> JSONStringify(v.f[k])])
  ELSE v

\* The user object spec.buildRequests puts in the request, before serialization.
buildRequests_user(buyeruid, gdprConsent) ==
  Obj([k \in {"buyeruid", "ext"} |->
         IF k = "buyeruid" THEN buyeruid
         ELSE IF Truthy(Field(gdprConsent, "gdprApplies"))
              THEN Obj([c \in {"consent"} |-> Field(gdprConsent, "consentString")])
              ELSE Obj(<<>>)])

GdprConsents ==
  {Obj(<<>>),
   Obj([k \in {"gdprApplies", "consentString"} |->
          IF k = "gdprApplies" THEN Bool(TRUE) ELSE Str(<<"c">>)])}

SyncIdle    == calls = <<>> /\ lastRefreshed = Undefined
DecodeIdle  == decodeIn = Undefined /\ decodeOut = Pending
AuctionIdle == bids = Undefined /\ serverResponse = Undefined /\ bidResults = Pending
ResolveIdle == foundId = Pending /\ adapterId = Pending /\ requestUser = Pending

AdapterInit ==
  /\ localStorage \in [mode : Modes, data : {Null, Str(<<"L">>)}]
  /\ \E m \in Modes, c \in {Null} \cup {Str(s) : s \in CookieStrings(MaxPairs)},
        g \in Absent(<<"g">>) :
       cookieJar = [mode |-> m,
                    jar  |-> [n \in CookieNames |->
                                CASE n = COOKIE_KEY      -> c
                                  [] n = TGID_COOKIE_KEY -> g
                                  [] OTHER               -> Null]]
  /\ TRC \in {NoTRC, [user_id |-> Undefined], [user_id |-> Num(0)],
              [user_id |-> Str(<<"T">>)]}
  /\ ResolveIdle /\ SyncIdle /\ DecodeIdle /\ AuctionIdle

\* spec.buildRequests(validBidRequests, bidderRequest): resolves the identifier
\* and serializes the request.
BuildRequests ==
  /\ requestUser = Pending
  /\ \E gdprConsent \in GdprConsents :
       LET id == adapter_getUserId(localStorage, cookieJar, TRC)
       IN /\ adapterId' = id
          /\ requestUser' = JSONStringify(buildRequests_user(id, gdprConsent))
  /\ UNCHANGED <<storageVars, foundId, syncVars, decodeVars, auctionVars>>

AdapterNext == GetUserId \/ BuildRequests

SpecAdapter == AdapterInit /\ [][AdapterNext]_vars

---------------------------------------------------------------------------
(* taboolaIdSubmodule.decode *)

MaxIdLen == 4      \* symbols in a stored value

decode(value) ==
  IF value.t = "string" /\ value # Str(<<"0">>)
  THEN Obj([k \in {"taboolaId"} |-> value])
  ELSE Undefined

RECURSIVE Strings(_, _)
Strings(alphabet, n) ==
  IF n = 0 THEN {<<>>}
  ELSE Strings(alphabet, n - 1)
       \cup {Append(w, a) : w \in Strings(alphabet, n - 1), a \in alphabet}

StoredValues ==
  {Undefined, Null, Num(0), Num(7)} \cup {Str(w) : w \in Strings({"0", "a", "b"}, MaxIdLen)}

DecodeInit ==
  /\ decodeIn \in StoredValues
  /\ decodeOut = Pending
  /\ localStorage = [mode |-> "disabled", data |-> Null]
  /\ cookieJar = [mode |-> "disabled", jar |-> [n \in CookieNames |-> Null]]
  /\ TRC = NoTRC
  /\ ResolveIdle /\ SyncIdle /\ AuctionIdle

Decode ==
  /\ decodeOut = Pending
  /\ decodeOut' = decode(decodeIn)
  /\ UNCHANGED <<storageVars, resolveVars, syncVars, decodeIn, auctionVars>>

SpecDecode == DecodeInit /\ [][Decode]_vars

---------------------------------------------------------------------------
(* spec.interpretResponse of the bid adapter *)

MaxBatch == 3      \* bid requests in a batch
MaxBids  == 3      \* entries in the first seat's bid list

\* function getBidResponses({body}): reading a property of undefined raises.
getBidResponses(response) ==
  IF response.t # "object" THEN Throw
  ELSE LET body == Field(response, "body")
       IN IF ~Truthy(body) \/ ~Truthy(Field(body, "bidResponse")) THEN Arr(<<>>)
          ELSE LET seatbid == Field(Field(body, "bidResponse"), "seatbid")
                   cur     == Field(Field(body, "bidResponse"), "cur")
               IN IF seatbid.t # "array" THEN Throw
                  ELSE IF Len(seatbid.a) = 0 THEN Arr(<<>>)
                  ELSE IF seatbid.a[1].t # "object" THEN Throw
                  ELSE IF ~Truthy(Field(seatbid.a[1], "bid")) THEN Arr(<<>>)
                  ELSE Obj([k \in {"bidResponses", "cur"} |->
                              IF k = "cur" THEN cur ELSE Field(seatbid.a[1], "bid")])

\* function getBid(requestId, currency, bidResponse)
getBid(requestId, currency, bidResponse) ==
  IF ~Truthy(bidResponse) THEN Undefined
  ELSE LET advertiserDomains == Field(bidResponse, "adomain")
           meta == IF Truthy(advertiserDomains) /\ Len(advertiserDomains.a) > 0
                   THEN Obj([k \in {"advertiserDomains"} |-> advertiserDomains])
                   ELSE Obj(<<>>)
       IN Obj([k \in {"requestId", "ttl", "mediaType", "cpm", "creativeId", "currency",
                      "ad", "width", "height", "meta", "netRevenue"} |->
                 CASE k = "requestId"  -> requestId
                   [] k = "ttl"        -> Num(360)
                   [] k = "mediaType"  -> Str(<<"banner">>)
                   [] k = "cpm"        -> Field(bidResponse, "price")
                   [] k = "creativeId" -> Field(bidResponse, "crid")
                   [] k = "currency"   -> currency
                   [] k = "ad"         -> Field(bidResponse, "adm")
                   [] k = "width"      -> Field(bidResponse, "w")
                   [] k = "height"     -> Field(bidResponse, "h")
                   [] k = "meta"       -> meta
                   [] OTHER            -> Bool(FALSE)])

\* bidResponses[id], undefined beyond the array's end (id counts from 0).
At(array, id) == IF id + 1 \in 1..Len(array.a) THEN array.a[id + 1] ELSE Undefined

\* The map that pairs bid request i with bid entry i + 1.
mapBids_shifted(batch, currency, bidResponses) ==
  [i \in 1..Len(batch.a) |->
     getBid(Field(batch.a[i], "bidId"), currency, At(bidResponses, i))]

\* bids.map((bid, id) => getBid(bid.bidId, currency, bidResponses[id]))
mapBids(batch, currency, bidResponses) ==
  [i \in 1..Len(batch.a) |->
     getBid(Field(batch.a[i], "bidId"), currency, At(bidResponses, i - 1))]

\* spec.interpretResponse(serverResponse, {bids})
interpretResponse(response, batch) ==
  IF ~Truthy(batch) THEN Arr(<<>>)
  ELSE LET got == getBidResponses(response)
       IN IF got = Throw THEN Throw
          ELSE IF ~Truthy(Field(got, "bidResponses")) THEN Arr(<<>>)
          ELSE Arr(SelectSeq(mapBids(batch, Field(got, "cur"), Field(got, "bidResponses")),
                             Truthy))

Digits == <<"1", "2", "3", "4", "5", "6", "7", "8", "9">>

BidRequest(i) == Obj([k \in {"bidId"} |-> Str(<<"r", Digits[i]>>)])

Batches == {Undefined} \cup {Arr([i \in 1..n |-> BidRequest(i)]) : n \in 0..MaxBatch}

BidEntries ==
  {Null,
   Obj([k \in {"price", "crid", "adm", "w", "h"} |->
          CASE k = "price" -> Num(1) [] k = "crid" -> Str(<<"c", "1">>)
            [] k = "adm" -> Str(<<"m", "1">>) [] k = "w" -> Num(300) [] OTHER -> Num(250)]),
   Obj([k \in {"price", "crid", "adm", "w", "h", "adomain"} |->
          CASE k = "price" -> Num(2) [] k = "crid" -> Str(<<"c", "2">>)
            [] k = "adm" -> Str(<<"m", "2">>) [] k = "w" -> Num(728) [] k = "h" -> Num(90)
            [] OTHER -> Arr(<<Str(<<"x">>)>>)])}

RECURSIVE BidLists(_)
BidLists(n) ==
  IF n = 0 THEN {<<>>}
  ELSE BidLists(n - 1) \cup {Append(l, e) : l \in BidLists(n - 1), e \in BidEntries}

Seat(bid) == Obj([k \in {"bid"} |-> bid])

BidResponseOf(seatbid) ==
  Obj([k \in {"body"} |->
         Obj([b \in {"bidResponse"} |->
                Obj([f \in {"seatbid", "cur"} |->
                       IF f = "cur" THEN Str(<<"USD">>) ELSE seatbid])])])

ServerResponses ==
  {Obj(<<>>),                                                 \* no body
   Obj([k \in {"body"} |-> Obj(<<>>)]),                       \* no bidResponse
   Obj([k \in {"body"} |->
          Obj([b \in {"bidResponse"} |-> Obj([f \in {"cur"} |-> Str(<<"USD">>)])])]),
   BidResponseOf(Arr(<<>>)),                                  \* no seat
   BidResponseOf(Arr(<<Obj(<<>>)>>))}                         \* a seat without a bid list
  \cup {BidResponseOf(Arr(<<Seat(Arr(l))>>)) : l \in BidLists(MaxBids)}
  \cup {BidResponseOf(Arr(<<Seat(Arr(l)), Seat(Arr(<<>>))>>)) : l \in BidLists(1)}

InterpretInit ==
  /\ bids \in Batches
  /\ serverResponse \in ServerResponses
  /\ bidResults = Pending
  /\ localStorage = [mode |-> "disabled", data |-> Null]
  /\ cookieJar = [mode |-> "disabled", jar |-> [n \in CookieNames |-> Null]]
  /\ TRC = NoTRC
  /\ ResolveIdle /\ SyncIdle /\ DecodeIdle

InterpretResponse ==
  /\ bidResults = Pending
  /\ bidResults' = interpretResponse(serverResponse, bids)
  /\ UNCHANGED <<storageVars, resolveVars, syncVars, decodeVars, bids, serverResponse>>

SpecInterpret == InterpretInit /\ [][InterpretResponse]_vars

---------------------------------------------------------------------------
(* Properties of the user sync, under Spec *)

Call(i) == calls[i]
CallIds == 1..Len(calls)
TaboolaIdOf(v) == Field(v, "taboolaId")

\* C1: on every path of callTaboolaUserSync (refreshing response, response without
\* taboolaId, unparsable response, transport error) the callback is invoked
\* exactly once, whatever the callback does: never twice, and once the call has
\* settled, not zero times.
C1_CallbackExactlyOnce ==
  \A i \in CallIds :
    /\ Len(Call(i).delivered) <= 1
    /\ Call(i).pc = "done" => Len(Call(i).delivered) = 1

\* C2 as stated: whenever the callback has been invoked with { taboolaId: X } of a
\* refreshing response, a read of the durable store at that moment yields X
\* (stated for a callback that itself does not raise).
C2_StoreHoldsDelivered ==
  \A i \in CallIds :
    (Call(i).path = "refreshed" /\ ~Call(i).cbThrows) =>
      Call(i).seen[1] = TaboolaIdOf(Call(i).delivered[1])

\* C2, amended: saveUserId has returned before the callback of a refreshing
\* response is invoked.  With the durable store enabled, the callback finds X in
\* it; with the store disabled, faulty or refusing the write, the failure is
\* swallowed, the store is as it was before the response, and the callback is
\* still invoked with X.
C2_PersistBeforeCallback ==
  \A i \in CallIds :
    Call(i).path = "refreshed" =>
      LET X == TaboolaIdOf(Call(i).delivered[1])
      IN /\ Truthy(X)
         /\ localStorage.mode = "enabled" => Call(i).seen[1] = X /\ Call(i).after = X
         /\ localStorage.mode # "enabled" =>
              /\ Call(i).after = Call(i).before
              /\ Call(i).seen[1] = getDataFromLocalStorage(
                                     [mode |-> localStorage.mode, data |-> Call(i).before])

C2_Witness ==
  \E i \in CallIds :
    /\ Call(i).path = "refreshed"
    /\ localStorage.mode = "enabled"
    /\ Call(i).before # TaboolaIdOf(Call(i).delivered[1])
    /\ Call(i).seen[1] = TaboolaIdOf(Call(i).delivered[1])

\* The value C8 expects on the fallback paths: { taboolaId: lastKnownId } when
\* lastKnownId is present and non-zero, undefined when it is absent, empty or
\* zero as a number or as a string.
ExpectedFallback(lastKnownId) ==
  IF lastKnownId \in {Undefined, Null, Num(0), Str(<<>>), Str(<<"0">>)}
  THEN Undefined
  ELSE Obj([k \in {"taboolaId"} |-> lastKnownId])

\* C8: a sync that ends in a decode failure, a response without taboolaId or a
\* transport error delivers { taboolaId: lastKnownId } when lastKnownId is present
\* and non-zero and undefined otherwise, raises nothing and leaves storage as it
\* was (stated for a callback that itself does not raise).
C8_FallbackDelivery ==
  \A i \in CallIds :
    (Call(i).pc = "done" /\ Call(i).path # "refreshed" /\ ~Call(i).cbThrows) =>
      /\ Call(i).delivered = <<ExpectedFallback(Call(i).currentId)>>
      /\ ~Call(i).fault
      /\ ~Call(i).touched

\* C10 as stated: once a sync has delivered a refreshed identifier, and with the
\* durable store or the cookie jar available, getUserId() returns the identifier
\* of the refreshing response handled last.
C10_RoundTripAnyMedium ==
  (lastRefreshed # Undefined
     /\ (localStorage.mode = "enabled" \/ cookieJar.mode = "enabled")) =>
    getUserId(localStorage, cookieJar, TRC) = lastRefreshed

\* C10, amended: once a sync has delivered a refreshed identifier, and with the
\* durable store enabled, getUserId() returns the identifier of the refreshing
\* response handled last (last writer wins).  The cookie saveUserId writes is
\* named "taboola global:user-id", which getUserId never reads.
C10_RoundTripDurable ==
  (lastRefreshed # Undefined /\ localStorage.mode = "enabled") =>
    getUserId(localStorage, cookieJar, TRC) = lastRefreshed

C10_Witness ==
  /\ localStorage.mode = "enabled"
  /\ Len(calls) = 2
  /\ Call(1).path = "refreshed" /\ Call(2).path = "refreshed"
  /\ TaboolaIdOf(Call(1).delivered[1]) # TaboolaIdOf(Call(2).delivered[1])
  /\ lastRefreshed = TaboolaIdOf(Call(1).delivered[1])
  /\ getUserId(localStorage, cookieJar, TRC) = lastRefreshed

---------------------------------------------------------------------------
(* Properties of the identity resolution, under SpecResolve and SpecAdapter *)

\* The value of the first pair of an '&'-joined cookie whose key is exactly key:
\* the text between the pair's '=' and the next '&'.  NoPair when there is none.
NoPair == [t |-> "nopair"]
PairStarts(c, key) ==
  {i \in 1..Len(c) : /\ (i = 1 \/ c[i - 1] = "&")
                     /\ i + Len(key) <= Len(c)
                     /\ SubSeq(c, i, i + Len(key)) = key \o <<"=">>}
PairValue(c, key) ==
  IF PairStarts(c, key) = {} THEN NoPair
  ELSE LET i    == CHOOSE x \in PairStarts(c, key) : \A y \in PairStarts(c, key) : x <= y
           from == i + Len(key) + 1
           stop == CHOOSE e \in from..(Len(c) + 1) :
                     /\ (e = Len(c) + 1 \/ c[e] = "&")
                     /\ \A j \in from..(e - 1) : c[j] # "&"
       IN Str(SubSeq(c, from, stop - 1))

\* The six sources in the order of precedence, each with what it holds: nothing
\* (Undefined) when its medium is not enabled or the value is absent.
Sources ==
  LET jar == cookieJar.jar
      ckOn == cookieJar.mode = "enabled"
      pair == IF ckOn /\ jar[COOKIE_KEY].t = "string"
              THEN PairValue(jar[COOKIE_KEY].s, USER_ID) ELSE NoPair
  IN << IF localStorage.mode = "enabled" THEN localStorage.data ELSE Undefined,
        IF pair = NoPair THEN Undefined ELSE pair,
        IF ckOn THEN jar[TGID_COOKIE_KEY] ELSE Undefined,
        IF ckOn THEN jar[TGID_PT_COOKIE_KEY] ELSE Undefined,
        IF ckOn THEN jar[TBLA_ID_COOKIE_KEY] ELSE Undefined,
        IF TRC = NoTRC THEN Undefined ELSE TRC.user_id >>

NonEmpty(v) == v.t = "string" /\ v.s # <<>>
Sentinel(v) == v \in {Num(0), Undefined}

Unknown(v) == ~Truthy(v)

\* C9: the bid adapter's getUserId and the ID submodule's getUserId resolve alike:
\* in every storage state both return the same identifier, or both the unknown
\* sentinel.
C9_SameResolution ==
  (foundId # Pending /\ adapterId # Pending) =>
    \/ foundId = adapterId
    \/ Unknown(foundId) /\ Unknown(adapterId)

\* No access of the adapter's resolution raises: neither medium is faulty, and
\* trc_cookie_storage is there to be split when the cookie jar is read.
AdapterReadsCleanly ==
  /\ localStorage.mode # "faulty"
  /\ cookieJar.mode # "faulty"
  /\ cookieJar.mode = "enabled" => cookieJar.jar[COOKIE_KEY] # Null

\* C7 as stated: buyeruid carries the resolver's value when an identifier is
\* available, and is left out of the serialized request when the resolver yields
\* zero, empty or absent (stated for the storage states in which no access of
\* the resolution raises).
C7_OmittedWhenUnknown ==
  (requestUser # Pending /\ AdapterReadsCleanly) =>
    IF Unknown(adapterId)
    THEN "buyeruid" \notin DOMAIN requestUser.f
    ELSE Field(requestUser, "buyeruid") = adapterId

\* C7, amended: buyeruid carries the resolver's value whenever that value is not
\* undefined, the number 0 included: a page with no usable storage and no
\* window.TRC, or one whose storage access raises, sends "buyeruid":0.  The field
\* is left out only when the resolver yields undefined (window.TRC present
\* without a user_id).
C7_BuyeruidVerbatim ==
  requestUser # Pending =>
    /\ adapterId # Undefined =>
         "buyeruid" \in DOMAIN requestUser.f /\ requestUser.f["buyeruid"] = adapterId
    /\ adapterId = Undefined => "buyeruid" \notin DOMAIN requestUser.f
    /\ ( \/ localStorage.mode = "faulty"
         \/ (localStorage.mode = "disabled" /\ cookieJar.mode = "disabled" /\ TRC = NoTRC) )
         => Field(requestUser, "buyeruid") = Num(0)
    /\ ( localStorage.mode = "disabled" /\ cookieJar.mode = "disabled"
         /\ TRC = [user_id |-> Undefined] )
         => "buyeruid" \notin DOMAIN requestUser.f

C7_Witness ==
  /\ requestUser # Pending
  /\ localStorage.mode = "disabled" /\ cookieJar.mode = "disabled" /\ TRC = NoTRC
  /\ "buyeruid" \in DOMAIN requestUser.f
  /\ requestUser.f["buyeruid"] = Num(0)

---------------------------------------------------------------------------
(* Properties of decode, under SpecDecode *)

\* C4: decode("0") and decode("") yield no identifier (undefined), and decode of
\* any other string s yields { taboolaId: s }.
C4_DecodeSentinels ==
  decodeOut # Pending =>
    IF decodeIn \in {Str(<<"0">>), Str(<<>>)} THEN decodeOut = Undefined
    ELSE decodeIn.t = "string" => decodeOut = Obj([k \in {"taboolaId"} |-> decodeIn])

---------------------------------------------------------------------------
(* Properties of interpretResponse, under SpecInterpret *)

\* The first seat's bid list, NoList when the response has none.
NoList == [t |-> "nolist"]
FirstSeatBids ==
  LET seatbid == Field(Field(Field(serverResponse, "body"), "bidResponse"), "seatbid")
  IN IF seatbid.t = "array" /\ Len(seatbid.a) > 0 /\ Field(seatbid.a[1], "bid").t = "array"
     THEN Field(seatbid.a[1], "bid") ELSE NoList

\* C5: interpretResponse never raises: with the batch absent or empty, or
\* the body, the bidResponse, the seatbid array, its first seat or that seat's bid
\* list missing, it returns the empty sequence.
C5_NeverFaults ==
  bidResults # Pending =>
    /\ bidResults # Throw
    /\ (~Truthy(bids) \/ Len(bids.a) = 0 \/ FirstSeatBids = NoList) => bidResults = Arr(<<>>)

Min(a, b) == IF a < b THEN a ELSE b

\* C6: for a batch of n bid requests and a first-seat bid list of m entries, the
\* results are, in increasing index order, one for each index i <= min(n, m) whose
\* bid entry is present, with requestId of batch[i] and cpm, creativeId, ad, width,
\* height of entry i; the rest of the batch is dropped.
C6_Positional ==
  (bidResults # Pending /\ Truthy(bids) /\ FirstSeatBids # NoList) =>
    LET e       == FirstSeatBids.a
        present == {i \in 1..Min(Len(bids.a), Len(e)) : e[i] # Null}
        nth(k)  == CHOOSE i \in present : Cardinality({j \in present : j < i}) = k - 1
    IN /\ bidResults.t = "array"
       /\ Len(bidResults.a) = Cardinality(present)
       /\ \A k \in 1..Cardinality(present) :
            LET r == bidResults.a[k]
                b == e[nth(k)]
            IN /\ Field(r, "requestId")  = Field(bids.a[nth(k)], "bidId")
               /\ Field(r, "cpm")        = Field(b, "price")
               /\ Field(r, "creativeId") = Field(b, "crid")
               /\ Field(r, "ad")         = Field(b, "adm")
               /\ Field(r, "width")      = Field(b, "w")
               /\ Field(r, "height")     = Field(b, "h")

C6_Witness ==
  /\ bidResults # Pending
  /\ Truthy(bids) /\ Len(bids.a) = 3
  /\ FirstSeatBids # NoList /\ Len(FirstSeatBids.a) = 2
  /\ bidResults.t = "array" /\ Len(bidResults.a) = 2
  /\ Field(bidResults.a[1], "requestId") = Str(<<"r", "1">>)
  /\ Field(bidResults.a[2], "requestId") = Str(<<"r", "2">>)
  /\ Field(bidResults.a[1], "cpm") # Field(bidResults.a[2], "cpm")

===========================================================================
